---- MODULE Spec2Model ----
(***************************************************************************)
(* ImageOptix: the batch job orchestration of createProcessImagesJob, the  *)
(* in-memory jobStore and the fixed-window rate limiter checkRateLimit.    *)
(*                                                                         *)
(* The server runs on one JavaScript event loop: a handler runs without    *)
(* interruption from one `await` to the next.  Every action below is one   *)
(* such run-to-suspension segment.                                         *)
(***************************************************************************)
EXTENDS Integers, Sequences, FiniteSets, TLC

(***************************************************************************)
(* Program constants, scaled down so that the limits are reached.          *)
(***************************************************************************)
\* src/src/config/limits.ts:7 (50 in the source)
BATCH_LIMIT == 2
\* src/src/config/limits.ts:10 (100 in the source)
RATE_LIMIT_MAX_REQUESTS == 2
\* src/src/config/limits.ts:13 (60 * 1000 ms in the source; here in clock ticks)
RATE_LIMIT_WINDOW_MS == 2

\* src/unnamed/part_008:252, the delay of the clean-up timer (60000 ms in the
\* source; here in clock ticks)
EVICTION_DELAY_MS == 2

(***************************************************************************)
(* Bounds of the model.                                                    *)
(***************************************************************************)
\* number of job ids nanoid() hands out
MaxJobs == 2
\* number of createProcessImagesJob calls
MaxCalls == 3
\* last clock value
MaxTime == 6
\* number of runs of the preview effect with a file
MaxPreviews == 3
\* number of direct checkRateLimit calls
MaxChecks == 5
\* largest byteLength of a transcoded buffer
MaxSize == 2
\* last clock value of the polling specification
MaxPollTime == 4

\* the per-item size ceiling of the output strategy (spec.md 4.3); the
\* source has no such constant
SizeCeiling == 2

VARIABLES
    now,        \* Date.now()
    requests,   \* rate-limiter.ts: Map ip -> {count, startTime}
    nextSweep,  \* due time of the limiter's setInterval callback
    rlLog,      \* per identity, the direct checkRateLimit calls so far (CheckRateLimitCall):
                \* <<time, success>>
    jobStore,   \* actions: Map jobId -> Job
    writes,     \* per job id, every record passed to jobStore.set, in order
    task,       \* the background task of each job: its suspension point and locals
    issued,     \* number of ids nanoid() has returned
    calls,      \* number of createProcessImagesJob calls made
    reply,      \* what the server action called in the step just taken returned
                \* (<<>> when the step called none)
    timers,     \* the pending setTimeout callbacks of getJobStatus: [jobId, due]
    doneAt,     \* per job id, the time its 'completed' or 'failed' record was written
    evicted,    \* the job ids a timer callback has deleted from jobStore
    client,     \* the ImageOptix component: its job state and isProcessing
    preview     \* the PreviewArea component: its props, its state, the pending
                \* debounce timer and the preview requests awaiting an answer

vars == <<now, requests, nextSweep, rlLog, jobStore, writes, task, issued, calls, reply,
          timers, doneAt, evicted, client, preview>>

(***************************************************************************)
(* File names are sequences of characters.                                 *)
(***************************************************************************)
\* String.prototype.lastIndexOf('.'), 0-based, -1 when absent
LastIndexOf(name, ch) ==
    LET hits == {k \in 1..Len(name) : name[k] = ch}
    IN  IF hits = {} THEN -1
        ELSE (CHOOSE k \in hits : \A h \in hits : h <= k) - 1

\* String.prototype.substring(start, end): negative arguments count as 0,
\* arguments beyond the length as the length, and the two are swapped when
\* start > end
Clamp(x, len) == IF x < 0 THEN 0 ELSE IF x > len THEN len ELSE x

Substring(name, start, end) ==
    LET s == Clamp(start, Len(name))
        e == Clamp(end, Len(name))
        lo == IF s <= e THEN s ELSE e
        hi == IF s <= e THEN e ELSE s
    IN  SubSeq(name, lo + 1, hi)

\* `${originalName}.${settings.format}`
NewName(name, format) ==
    Substring(name, 0, LastIndexOf(name, ".")) \o <<".", format>>

(***************************************************************************)
(* Maps (JavaScript Map) are functions whose domain is the set of keys.    *)
(***************************************************************************)
MapSet(m, k, v) == [x \in (DOMAIN m) \cup {k} |-> IF x = k THEN v ELSE m[x]]

\* mutant: the delete empties the map
MapDelete_Clear(m, k) == [x \in {} |-> m[x]]

MapDelete(m, k) == [x \in (DOMAIN m) \ {k} |-> m[x]]

\* a step that calls no server action
NoCall == reply' = <<>>

(***************************************************************************)
(* src/src/lib/rate-limiter.ts                                             *)
(***************************************************************************)
\* mutant: the window already counts as expired at exactly the window length
WindowExpired_AtBoundary(startTime) == now - startTime >= RATE_LIMIT_WINDOW_MS

\* mutant: a window counts as expired as soon as the clock has moved
WindowExpired_AnyAge(startTime) == now - startTime > 0

\* rate-limiter.ts:15, the test that resets the window
WindowExpired(startTime) == now - startTime > RATE_LIMIT_WINDOW_MS

\* mutant: the test admits a call when the count is already at the maximum
UnderLimit_Inclusive(count) == count <= RATE_LIMIT_MAX_REQUESTS

\* rate-limiter.ts:21, the test that admits a call inside the window
UnderLimit(count) == count < RATE_LIMIT_MAX_REQUESTS

\* the branch of checkRateLimit that returns { success: false }
RateLimitDenied(ip) ==
    /\ ip \in DOMAIN requests
    /\ ~WindowExpired(requests[ip].startTime)
    /\ ~UnderLimit(requests[ip].count)

\* mutant: the reset of an expired window carries the old count on
RequestsAfterCheck_KeepsCount(ip) ==
    IF ip \notin DOMAIN requests
    THEN MapSet(requests, ip, [count |-> 1, startTime |-> now])
    ELSE IF WindowExpired(requests[ip].startTime)
    THEN MapSet(requests, ip, [count |-> requests[ip].count + 1, startTime |-> now])
    ELSE IF UnderLimit(requests[ip].count)
    THEN [requests EXCEPT ![ip].count = @ + 1]
    ELSE requests

\* mutant: a refused call restarts the window
RequestsAfterCheck_DenialRestarts(ip) ==
    IF ip \notin DOMAIN requests
    THEN MapSet(requests, ip, [count |-> 1, startTime |-> now])
    ELSE IF WindowExpired(requests[ip].startTime)
    THEN MapSet(requests, ip, [count |-> 1, startTime |-> now])
    ELSE IF UnderLimit(requests[ip].count)
    THEN [requests EXCEPT ![ip].count = @ + 1]
    ELSE [requests EXCEPT ![ip].startTime = now]

\* the requests map after checkRateLimit(ip)
RequestsAfterCheck(ip) ==
    IF ip \notin DOMAIN requests
    THEN MapSet(requests, ip, [count |-> 1, startTime |-> now])
    ELSE IF WindowExpired(requests[ip].startTime)
    THEN MapSet(requests, ip, [count |-> 1, startTime |-> now])
    ELSE IF UnderLimit(requests[ip].count)
    THEN [requests EXCEPT ![ip].count = @ + 1]
    ELSE requests

\* the direct calls logged so far
Checks == LET RECURSIVE Sum(_)
              Sum(S) == IF S = {} THEN 0
                        ELSE LET x == CHOOSE y \in S : TRUE
                             IN  Len(rlLog[x]) + Sum(S \ {x})
          IN  Sum(DOMAIN rlLog)

\* one direct call of checkRateLimit(ip), logged with its time and answer
CheckRateLimitCall(ip) ==
    /\ Checks < MaxChecks
    /\ requests' = RequestsAfterCheck(ip)
    /\ rlLog' = MapSet(rlLog, ip,
                   (IF ip \in DOMAIN rlLog THEN rlLog[ip] ELSE <<>>)
                   \o << <<now, ~RateLimitDenied(ip)>> >>)
    /\ NoCall
    /\ UNCHANGED <<now, nextSweep, jobStore, writes, task, issued, calls,
                   doneAt, timers, evicted, client, preview>>

\* mutant: the sweep deletes a record only after two window lengths
SweepExpired_TwoWindows(ip) == now - requests[ip].startTime > 2 * RATE_LIMIT_WINDOW_MS

\* mutant: the sweep deletes every record
SweepExpired_All(ip) == TRUE

\* mutant: the sweep already deletes a record at exactly the window length
SweepExpired_AtBoundary(ip) == now - requests[ip].startTime >= RATE_LIMIT_WINDOW_MS

\* the records the sweep deletes
SweepExpired(ip) == now - requests[ip].startTime > RATE_LIMIT_WINDOW_MS

\* the setInterval callback; Node re-arms an interval from the time its
\* callback ran
Sweep ==
    /\ now >= nextSweep
    /\ requests' = [ip \in {x \in DOMAIN requests : ~SweepExpired(x)} |-> requests[ip]]
    /\ nextSweep' = now + RATE_LIMIT_WINDOW_MS
    /\ NoCall
    /\ UNCHANGED <<now, rlLog, jobStore, writes, task, issued, calls, doneAt,
                   timers, evicted, client, preview>>

(***************************************************************************)
(* The settings form field.  A JSON number x is held as 2x, so that halves *)
(* are representable: x is an integer iff 2x is even.                      *)
(***************************************************************************)
JNum(twice) == [t |-> "num", twice |-> twice]
JNull == [t |-> "null", twice |-> 0]
JStr == [t |-> "str", twice |-> 0]

\* mutant: the schema without .int()
ZNumberMinMaxInt_NoInt(v, lo, hi) ==
    /\ v.t = "num"
    /\ v.twice >= 2 * lo
    /\ v.twice <= 2 * hi

\* z.number().min(lo).max(hi).int()
ZNumberMinMaxInt(v, lo, hi) ==
    /\ v.t = "num"
    /\ v.twice >= 2 * lo
    /\ v.twice <= 2 * hi
    /\ v.twice % 2 = 0

\* z.number().min(lo).int().nullable()
ZNumberMinIntNullable(v, lo) ==
    \/ v.t = "null"
    \/ /\ v.t = "num"
       /\ v.twice >= 2 * lo
       /\ v.twice % 2 = 0

FormatEnum == {"jpeg", "png", "webp", "avif", "tiff", "bmp", "gif"}

\* optimizationSettingsSchema.safeParse(obj).success
SchemaOk(obj) ==
    /\ obj.format \in FormatEnum
    /\ ZNumberMinMaxInt(obj.quality, 1, 100)
    /\ ZNumberMinIntNullable(obj.width, 1)
    /\ ZNumberMinIntNullable(obj.height, 1)

\* the settings object the client sends by default
GoodSettings == [format |-> "webp", quality |-> JNum(160), width |-> JNull, height |-> JNull]

\* the settings form field: absent (formData.get gives null), the empty
\* string, text that is not JSON, or the JSON text of an object
FieldAbsent == [kind |-> "absent", obj |-> GoodSettings]
FieldEmpty == [kind |-> "empty", obj |-> GoodSettings]
FieldGarbage == [kind |-> "garbage", obj |-> GoodSettings]
FieldJson(obj) == [kind |-> "json", obj |-> obj]

\* !settingsString
SettingsFalsy(field) == field.kind \in {"absent", "empty"}

\* JSON.parse(settingsString) throws
JsonParseThrows(field) == field.kind = "garbage"

(***************************************************************************)
(* Job records (type Job): info, result and error are optional fields.     *)
(***************************************************************************)
\* { status: 'processing', progress, total }
ProcessingRecord(progress, total) ==
    [status |-> "processing", progress |-> progress, total |-> total]

\* { status: 'processing', progress, total, info }
ProcessingInfoRecord(progress, total, info) ==
    [status |-> "processing", progress |-> progress, total |-> total, info |-> info]

\* mutant: the completed record reports the last loop index as progress
CompletedRecord_LastIndex(n, result) ==
    [status |-> "completed", progress |-> n - 1, total |-> n, result |-> result]

\* { status: 'completed', progress: files.length, total: files.length, result }
CompletedRecord(n, result) ==
    [status |-> "completed", progress |-> n, total |-> n, result |-> result]

\* mutant: the catch block does not carry the stored progress over
FailedProgress_Zero(j) == 0

\* jobStore.get(jobId)?.progress || 0
FailedProgress(j) == IF j \in DOMAIN jobStore THEN jobStore[j].progress ELSE 0

\* mutant: the failed record is written without its error message
FailedRecord_NoError(j, n, errorMessage) ==
    [status |-> "failed", progress |-> FailedProgress(j), total |-> n]

\* mutant: the failed record is merged into the stored one, keeping its info
FailedRecord_Merged(j, n, errorMessage) ==
    IF j \in DOMAIN jobStore /\ "info" \in DOMAIN jobStore[j]
    THEN [status |-> "failed", progress |-> FailedProgress(j), total |-> n,
          error |-> <<"Failed to process images: ", errorMessage>>,
          info |-> jobStore[j].info]
    ELSE [status |-> "failed", progress |-> FailedProgress(j), total |-> n,
          error |-> <<"Failed to process images: ", errorMessage>>]

\* { status: 'failed', progress, total: files.length, error }
FailedRecord(j, n, errorMessage) ==
    [status |-> "failed", progress |-> FailedProgress(j), total |-> n,
     error |-> <<"Failed to process images: ", errorMessage>>]

\* `Optimizing ${file.name}...`
OptimizingInfo(file) == <<"Optimizing ", file.name, "...">>

CompressingInfo == <<"Compressing into zip...">>

\* { type: 'file', data: dataUrl, filename: newName }; the data URL is held
\* as the buffer it encodes
FileResult(file, format, size) ==
    [type |-> "file", data |-> [mime |-> format, size |-> size],
     filename |-> NewName(file.name, format)]

\* { type: 'zip', data: zipDataUrl, filename: 'optimized-images.zip' }; the
\* data URL is held as the archive's entries
ZipResult(zip) ==
    [type |-> "zip", data |-> zip, filename |-> "optimized-images.zip"]

\* JSZip.file(name, data): an entry of the same name is replaced
ZipFile(zip, name, size) ==
    {e \in zip : e.name # name} \cup {[name |-> name, size |-> size]}

\* jobStore.set(j, r) for each r of rs in turn (rs is not empty)
StoreSet(j, rs) ==
    /\ jobStore' = MapSet(jobStore, j, rs[Len(rs)])
    /\ writes' = MapSet(writes, j,
                    (IF j \in DOMAIN writes THEN writes[j] ELSE <<>>) \o rs)
    /\ doneAt' = IF rs[Len(rs)].status \in {"completed", "failed"}
                 THEN MapSet(doneAt, j, now)
                 ELSE doneAt

(***************************************************************************)
(* createProcessImagesJob, up to the first await of its background task.   *)
(***************************************************************************)
NoHeader == "none"

\* mutant: a caller without the header is keyed by a name of its own
IpOf_UnknownOrigin(hdr) == IF hdr = NoHeader THEN "unknown origin" ELSE hdr

\* headers().get('x-forwarded-for') ?? '127.0.0.1'
IpOf(hdr) == IF hdr = NoHeader THEN "127.0.0.1" ELSE hdr

\* mutant: the batch-size test rejects a batch of exactly BATCH_LIMIT files
Rejection_LimitExclusive(ip, files, field) ==
    IF RateLimitDenied(ip) THEN "Too many requests. Please try again in a minute."
    ELSE IF Len(files) = 0 \/ SettingsFalsy(field) THEN "Missing files or settings."
    ELSE IF Len(files) >= BATCH_LIMIT THEN "Batch limit exceeded."
    ELSE IF JsonParseThrows(field) THEN "Failed to create job: "
    ELSE IF ~SchemaOk(field.obj) THEN "Invalid settings provided."
    ELSE ""

\* mutant: the answer of checkRateLimit is not looked at
Rejection_LimiterIgnored(ip, files, field) ==
    IF Len(files) = 0 \/ SettingsFalsy(field) THEN "Missing files or settings."
    ELSE IF Len(files) > BATCH_LIMIT THEN "Batch limit exceeded."
    ELSE IF JsonParseThrows(field) THEN "Failed to create job: "
    ELSE IF ~SchemaOk(field.obj) THEN "Invalid settings provided."
    ELSE ""

\* mutant: the limiter's answer is looked at after the validation
Rejection_ValidatesFirst(ip, files, field) ==
    IF Len(files) = 0 \/ SettingsFalsy(field) THEN "Missing files or settings."
    ELSE IF Len(files) > BATCH_LIMIT THEN "Batch limit exceeded."
    ELSE IF JsonParseThrows(field) THEN "Failed to create job: "
    ELSE IF ~SchemaOk(field.obj) THEN "Invalid settings provided."
    ELSE IF RateLimitDenied(ip) THEN "Too many requests. Please try again in a minute."
    ELSE ""

\* the early returns of createProcessImagesJob, in the order of the code;
\* "" when the submission passes them all
Rejection(ip, files, field) ==
    IF RateLimitDenied(ip) THEN "Too many requests. Please try again in a minute."
    ELSE IF Len(files) = 0 \/ SettingsFalsy(field) THEN "Missing files or settings."
    ELSE IF Len(files) > BATCH_LIMIT THEN "Batch limit exceeded."
    ELSE IF JsonParseThrows(field) THEN "Failed to create job: "
    ELSE IF ~SchemaOk(field.obj) THEN "Invalid settings provided."
    ELSE ""

\* mutant: the call returns while the transcode of item 0 is in flight
TaskAtFirstAwait_Transcoding(files, format) ==
    [pc |-> "optimize", i |-> 0, files |-> files, format |-> format, zip |-> {}]

\* the task's locals when it suspends at its first await (file.arrayBuffer()
\* of item 0)
TaskAtFirstAwait(files, format) ==
    [pc |-> "read", i |-> 0, files |-> files, format |-> format, zip |-> {}]

\* mutant: the job is registered with a 'starting' record
InitialWrites_Starting(files) ==
    << [status |-> "starting", progress |-> 0, total |-> Len(files)],
       ProcessingInfoRecord(0, Len(files), OptimizingInfo(files[1])) >>

\* the records written before the first await: the initial record, then the
\* info record of item 0 (the async function runs synchronously to its
\* first await)
InitialWrites(files) ==
    << ProcessingRecord(0, Len(files)),
       ProcessingInfoRecord(0, Len(files), OptimizingInfo(files[1])) >>

CreateProcessImagesJob(hdr, files, field) ==
    LET ip == IpOf(hdr)
        why == Rejection(ip, files, field)
        jobId == issued + 1
    IN  /\ calls < MaxCalls
        /\ calls' = calls + 1
        /\ requests' = RequestsAfterCheck(ip)
        /\ IF why # ""
           THEN /\ reply' = [error |-> why]
                /\ UNCHANGED <<jobStore, writes, doneAt, task, issued>>
           ELSE /\ issued < MaxJobs
                /\ issued' = jobId
                /\ StoreSet(jobId, InitialWrites(files))
                /\ task' = MapSet(task, jobId, TaskAtFirstAwait(files, field.obj.format))
                /\ reply' = [jobId |-> jobId]
        /\ UNCHANGED <<now, nextSweep, rlLog, timers, evicted>>

(***************************************************************************)
(* The background task of job j, one action per await that settles.        *)
(* t.i is the 0-based loop index; t.files[t.i + 1] is files[i].            *)
(***************************************************************************)
Pending(j, pc) == j \in DOMAIN task /\ task[j].pc = pc

\* mutant: instead of returning, the task starts over
Finished_StartsOver(t) == [t EXCEPT !.pc = "read", !.i = 0, !.zip = {}]

\* the task's locals once it has returned
Finished(t) == [t EXCEPT !.pc = "done", !.i = 0, !.zip = {}]

\* mutant: no catch block, the rejection ends the task and nothing is written
Catch_Uncaught(j, errorMessage) ==
    /\ task' = [task EXCEPT ![j] = Finished(@)]
    /\ NoCall
    /\ UNCHANGED <<now, requests, nextSweep, rlLog, jobStore, writes, issued,
                   calls, doneAt, timers, evicted, client, preview>>

\* mutant: the rejection is not turned into a record but surfaces as the
\* error of a submission
Catch_Rethrown(j, errorMessage) ==
    /\ task' = [task EXCEPT ![j] = Finished(@)]
    /\ reply' = [error |-> errorMessage]
    /\ UNCHANGED <<now, requests, nextSweep, rlLog, jobStore, writes, issued,
                   calls, doneAt, timers, evicted, client, preview>>

\* the catch block: the failed record replaces whatever is stored
Catch(j, errorMessage) ==
    /\ StoreSet(j, << FailedRecord(j, Len(task[j].files), errorMessage) >>)
    /\ task' = [task EXCEPT ![j] = Finished(@)]
    /\ NoCall
    /\ UNCHANGED <<now, requests, nextSweep, rlLog, issued, calls, timers,
                   evicted, client, preview>>

\* mutant: the transcode that starts is that of the item after the one read
ReadFulfilled_NextItem(j) ==
    /\ Pending(j, "read")
    /\ task' = [task EXCEPT ![j].pc = "optimize",
                            ![j].i = IF @ + 1 < Len(task[j].files) THEN @ + 1 ELSE @]
    /\ NoCall
    /\ UNCHANGED <<now, requests, nextSweep, rlLog, jobStore, writes, issued,
                   calls, doneAt, timers, evicted, client, preview>>

\* await file.arrayBuffer() fulfils: optimizeImage is called and awaited
ReadFulfilled(j) ==
    /\ Pending(j, "read")
    /\ task' = [task EXCEPT ![j].pc = "optimize"]
    /\ NoCall
    /\ UNCHANGED <<now, requests, nextSweep, rlLog, jobStore, writes, issued,
                   calls, doneAt, timers, evicted, client, preview>>

\* await file.arrayBuffer() rejects
ReadRejected(j) ==
    /\ Pending(j, "read")
    /\ Catch(j, "read failed")

\* the records written after item i of a single-file job is transcoded:
\* progress 1, then at once the completed record
SingleWrites(t, size) ==
    << ProcessingRecord(1, 1),
       CompletedRecord(Len(t.files), FileResult(t.files[1], t.format, size)) >>

\* mutant: the loop's record counts the item being started as progress
LoopWrite_CountsStarted(t) ==
    LET n == Len(t.files)
        i == t.i + 1
    IN  IF i < n
        THEN ProcessingInfoRecord(i + 1, n, OptimizingInfo(t.files[i + 1]))
        ELSE ProcessingInfoRecord(n, n, CompressingInfo)

\* mutant: after the last item the loop stores 'uploading'
LoopWrite_Uploading(t) ==
    LET n == Len(t.files)
        i == t.i + 1
    IN  IF i < n
        THEN ProcessingInfoRecord(i, n, OptimizingInfo(t.files[i + 1]))
        ELSE [status |-> "uploading", progress |-> n, total |-> n]

\* the record written by the loop after item i is transcoded: the info of
\* item i + 1, or after the last item the compressing record
LoopWrite(t) ==
    LET n == Len(t.files)
        i == t.i + 1
    IN  IF i < n
        THEN ProcessingInfoRecord(i, n, OptimizingInfo(t.files[i + 1]))
        ELSE ProcessingInfoRecord(n, n, CompressingInfo)

\* mutant: no single-file branch, every batch is zipped
IsSingle_Never(n) == FALSE

\* mutant: the single-file branch is taken for every batch
IsSingle_AtLeastOne(n) == n >= 1

\* files.length === 1: the single-file branch
IsSingle(n) == n = 1

\* await optimizeImage(fileBuffer, settings) fulfils with a buffer of
\* byteLength size
OptimizeFulfilled(j, size) ==
    /\ Pending(j, "optimize")
    /\ LET t == task[j]
           n == Len(t.files)
           i == t.i
           newName == NewName(t.files[i + 1].name, t.format)
       IN  IF IsSingle(n)
           THEN /\ StoreSet(j, SingleWrites(t, size))
                /\ task' = [task EXCEPT ![j] = Finished(@)]
           ELSE /\ StoreSet(j, << LoopWrite(t) >>)
                /\ task' = [task EXCEPT ![j].zip = ZipFile(t.zip, newName, size),
                                        ![j].i = i + 1,
                                        ![j].pc = IF i + 1 < n THEN "read" ELSE "zip"]
    /\ NoCall
    /\ UNCHANGED <<now, requests, nextSweep, rlLog, issued, calls, timers,
                   evicted, client, preview>>

\* await optimizeImage(fileBuffer, settings) rejects
OptimizeRejected(j) ==
    /\ Pending(j, "optimize")
    /\ Catch(j, "transcode failed")

\* await zip.generateAsync(...) fulfils
ZipFulfilled(j) ==
    /\ Pending(j, "zip")
    /\ StoreSet(j, << CompletedRecord(Len(task[j].files), ZipResult(task[j].zip)) >>)
    /\ task' = [task EXCEPT ![j] = Finished(@)]
    /\ NoCall
    /\ UNCHANGED <<now, requests, nextSweep, rlLog, issued, calls, timers,
                   evicted, client, preview>>

\* await zip.generateAsync(...) rejects
ZipRejected(j) ==
    /\ Pending(j, "zip")
    /\ Catch(j, "zip failed")

\* one step of the background task of job j
TaskStep(j) ==
    \/ ReadFulfilled(j)
    \/ ReadRejected(j)
    \/ \E size \in 1..MaxSize : OptimizeFulfilled(j, size)
    \/ OptimizeRejected(j)
    \/ ZipFulfilled(j)
    \/ ZipRejected(j)

(***************************************************************************)
(* The revision of createProcessImagesJob that uploads the archive         *)
(* (src/unnamed/part_009).  Its early returns are those of Rejection, in   *)
(* the same order; every batch is zipped, the records carry no info, and   *)
(* the archive is posted to an image host.  Its suspension points are      *)
(* named apart from those of the current revision.                         *)
(***************************************************************************)
\* mutant: the 'uploading' record starts progress over
UploadingRecord_ProgressReset(n) == [status |-> "uploading", progress |-> 0, total |-> n]

\* { status: 'uploading', progress: files.length, total: files.length }
UploadingRecord(n) == [status |-> "uploading", progress |-> n, total |-> n]

\* the task's locals at its first await, file.arrayBuffer() of item 0
UpTaskAtFirstAwait(files, format) ==
    [pc |-> "up-read", i |-> 0, files |-> files, format |-> format, zip |-> {}]

CreateProcessImagesJobUploading(hdr, files, field) ==
    LET ip == IpOf(hdr)
        why == Rejection(ip, files, field)
        jobId == issued + 1
    IN  /\ calls < MaxCalls
        /\ calls' = calls + 1
        /\ requests' = RequestsAfterCheck(ip)
        /\ IF why # ""
           THEN /\ reply' = [error |-> why]
                /\ UNCHANGED <<jobStore, writes, doneAt, task, issued>>
           ELSE /\ issued < MaxJobs
                /\ issued' = jobId
                /\ StoreSet(jobId, << ProcessingRecord(0, Len(files)) >>)
                /\ task' = MapSet(task, jobId, UpTaskAtFirstAwait(files, field.obj.format))
                /\ reply' = [jobId |-> jobId]
        /\ UNCHANGED <<now, nextSweep, rlLog, timers, evicted>>

\* await file.arrayBuffer() fulfils
UpReadFulfilled(j) ==
    /\ Pending(j, "up-read")
    /\ task' = [task EXCEPT ![j].pc = "up-optimize"]
    /\ NoCall
    /\ UNCHANGED <<now, requests, nextSweep, rlLog, jobStore, writes, issued,
                   calls, doneAt, timers, evicted, client, preview>>

\* await file.arrayBuffer() rejects
UpReadRejected(j) ==
    /\ Pending(j, "up-read")
    /\ Catch(j, "read failed")

\* await optimizeImage(...) fulfils: the entry is added and progress i + 1
\* is stored
UpOptimizeFulfilled(j, size) ==
    /\ Pending(j, "up-optimize")
    /\ LET t == task[j]
           n == Len(t.files)
           i == t.i
           newName == NewName(t.files[i + 1].name, t.format)
       IN  /\ StoreSet(j, << ProcessingRecord(i + 1, n) >>)
           /\ task' = [task EXCEPT ![j].zip = ZipFile(t.zip, newName, size),
                                   ![j].i = i + 1,
                                   ![j].pc = IF i + 1 < n THEN "up-read" ELSE "up-zip"]
    /\ NoCall
    /\ UNCHANGED <<now, requests, nextSweep, rlLog, issued, calls, timers,
                   evicted, client, preview>>

\* await optimizeImage(...) rejects
UpOptimizeRejected(j) ==
    /\ Pending(j, "up-optimize")
    /\ Catch(j, "transcode failed")

\* await zip.generateAsync(...) fulfils: only now is 'uploading' stored, and
\* the token is requested
UpZipFulfilled(j) ==
    /\ Pending(j, "up-zip")
    /\ StoreSet(j, << UploadingRecord(Len(task[j].files)) >>)
    /\ task' = [task EXCEPT ![j].pc = "up-token"]
    /\ NoCall
    /\ UNCHANGED <<now, requests, nextSweep, rlLog, issued, calls, timers,
                   evicted, client, preview>>

\* await zip.generateAsync(...) rejects
UpZipRejected(j) ==
    /\ Pending(j, "up-zip")
    /\ Catch(j, "zip failed")

\* mutant: with the token in hand the task reports 'processing' again
UpTokenFulfilled_ReportsProcessing(j) ==
    /\ Pending(j, "up-token")
    /\ StoreSet(j, << ProcessingRecord(Len(task[j].files), Len(task[j].files)) >>)
    /\ task' = [task EXCEPT ![j].pc = "up-post"]
    /\ NoCall
    /\ UNCHANGED <<now, requests, nextSweep, rlLog, issued, calls, timers,
                   evicted, client, preview>>

\* await getPostimagesToken() fulfils: the archive is posted
UpTokenFulfilled(j) ==
    /\ Pending(j, "up-token")
    /\ task' = [task EXCEPT ![j].pc = "up-post"]
    /\ NoCall
    /\ UNCHANGED <<now, requests, nextSweep, rlLog, jobStore, writes, issued,
                   calls, doneAt, timers, evicted, client, preview>>

\* await getPostimagesToken() rejects
UpTokenRejected(j) ==
    /\ Pending(j, "up-token")
    /\ Catch(j, "Could not fetch postimages token")

\* await axios.post(...) fulfils with status 'OK': result is the public URL
UpPostOk(j) ==
    /\ Pending(j, "up-post")
    /\ StoreSet(j, << CompletedRecord(Len(task[j].files), "publicUrl") >>)
    /\ task' = [task EXCEPT ![j] = Finished(@)]
    /\ NoCall
    /\ UNCHANGED <<now, requests, nextSweep, rlLog, issued, calls, timers,
                   evicted, client, preview>>

\* await axios.post(...) rejects, or fulfils with another status and the
\* task throws
UpPostFailed(j) ==
    /\ Pending(j, "up-post")
    /\ Catch(j, "Postimages upload failed")

\* one step of the background task of a job of the uploading revision
UpTaskStep(j) ==
    \/ UpReadFulfilled(j)
    \/ UpReadRejected(j)
    \/ \E size \in 1..MaxSize : UpOptimizeFulfilled(j, size)
    \/ UpOptimizeRejected(j)
    \/ UpZipFulfilled(j)
    \/ UpZipRejected(j)
    \/ UpTokenFulfilled(j)
    \/ UpTokenRejected(j)
    \/ UpPostOk(j)
    \/ UpPostFailed(j)

(***************************************************************************)
(* getJobStatus and the clean-up timers it schedules.                      *)
(***************************************************************************)
\* the null getJobStatus returns for an id jobStore does not hold
Null == <<>>

\* mutant: the lookup answers with the first record written for the id
JobGet_FirstWrite(jobId) ==
    IF jobId \in DOMAIN jobStore THEN writes[jobId][1] ELSE Null

\* jobStore.get(jobId), null standing for undefined
JobGet(jobId) == IF jobId \in DOMAIN jobStore THEN jobStore[jobId] ELSE Null

\* job.status === 'completed' || job.status === 'failed'
IsTerminal(job) == job.status = "completed" \/ job.status = "failed"

\* mutant: the clean-up is scheduled for every record read, terminal or not
TimersAfterPoll_AnyStatus(jobId) ==
    IF JobGet(jobId) # Null
    THEN timers \cup {[jobId |-> jobId, due |-> now + EVICTION_DELAY_MS]}
    ELSE timers

\* mutant: a poll of a terminal record replaces the pending timers of its id
TimersAfterPoll_Restarted(jobId) ==
    IF JobGet(jobId) # Null /\ IsTerminal(JobGet(jobId))
    THEN {t \in timers : t.jobId # jobId}
            \cup {[jobId |-> jobId, due |-> now + EVICTION_DELAY_MS]}
    ELSE timers

\* the timers pending after getJobStatus(jobId): one more, due
\* EVICTION_DELAY_MS from now, when the record read is terminal.  Two timers
\* with the same id and due time act as one.
TimersAfterPoll(jobId) ==
    IF JobGet(jobId) # Null /\ IsTerminal(JobGet(jobId))
    THEN timers \cup {[jobId |-> jobId, due |-> now + EVICTION_DELAY_MS]}
    ELSE timers

\* getJobStatus(jobId), called by any client; the caller's own state is
\* the caller's to change
GetJobStatus(jobId) ==
    /\ reply' = [polled |-> jobId, job |-> JobGet(jobId)]
    /\ timers' = TimersAfterPoll(jobId)
    /\ UNCHANGED <<now, requests, nextSweep, rlLog, jobStore, writes, task,
                   issued, calls, doneAt, evicted>>

\* the setTimeout callback: jobStore.delete(jobId)
TimerFires(t) ==
    /\ t \in timers
    /\ now >= t.due
    /\ jobStore' = MapDelete(jobStore, t.jobId)
    /\ evicted' = IF t.jobId \in DOMAIN jobStore THEN evicted \cup {t.jobId} ELSE evicted
    /\ timers' = timers \ {t}
    /\ NoCall
    /\ UNCHANGED <<now, requests, nextSweep, rlLog, writes, task, issued, calls,
                   doneAt, client, preview>>

(***************************************************************************)
(* The clock.  A timer that is due runs before the clock moves on.         *)
(***************************************************************************)
Tick ==
    /\ now < MaxTime
    /\ \A t \in timers : t.due > now
    /\ now' = now + 1
    /\ NoCall
    /\ UNCHANGED <<requests, nextSweep, rlLog, jobStore, writes, task,
                   issued, calls, doneAt, timers, evicted, client, preview>>

(***************************************************************************)
(* The inputs of a submission.                                             *)
(***************************************************************************)
Headers == {NoHeader, "10.0.0.1"}

File(k) == [name |-> <<ToString(k), ".", "png">>]

\* batches of 0 .. BATCH_LIMIT + 1 files
Batches == {[k \in 1..n |-> File(k)] : n \in 0..(BATCH_LIMIT + 1)}

SettingsFields ==
    {FieldAbsent, FieldEmpty, FieldGarbage, FieldJson(GoodSettings),
     FieldJson([GoodSettings EXCEPT !.format = "heic"]),
     FieldJson([GoodSettings EXCEPT !.quality = JNum(0)]),
     FieldJson([GoodSettings EXCEPT !.quality = JNum(202)]),
     FieldJson([GoodSettings EXCEPT !.quality = JNum(161)]),
     FieldJson([GoodSettings EXCEPT !.quality = JStr]),
     FieldJson([GoodSettings EXCEPT !.quality = JNum(200), !.width = JNum(2), !.format = "png"]),
     FieldJson([GoodSettings EXCEPT !.width = JNum(0)]),
     FieldJson([GoodSettings EXCEPT !.height = JNum(3)])}

(***************************************************************************)
(* The ImageOptix component (image-optix.tsx): its state job, isProcessing  *)
(* and files, the polling effect and handleBatchProcess.                   *)
(***************************************************************************)
\* the component before any submission: job is null, isProcessing false, no
\* files
ClientIdle == [job |-> Null, isProcessing |-> FALSE, files |-> <<>>]

\* job?.jobId is set
HasJobId(job) == job # Null /\ "jobId" \in DOMAIN job

\* the polling effect has its interval running: job.jobId is set and the
\* status is 'processing' or 'uploading'
Polling(c) == HasJobId(c.job) /\ c.job.status \in {"processing", "uploading"}

\* the component after setJob(job) and the run of the polling effect that
\* follows it: without a running interval, and unless the status is
\* 'starting', the effect calls setIsProcessing(false)
AfterSetJob(c, job) ==
    LET d == [c EXCEPT !.job = job]
    IN  IF ~Polling(d) /\ ~(job # Null /\ job.status = "starting")
        THEN [d EXCEPT !.isProcessing = FALSE]
        ELSE d

\* handleBatchProcess up to its await: the button is enabled only with files
\* and while isProcessing is false
HandleBatchProcess(files) ==
    /\ ~client.isProcessing
    /\ Len(files) > 0
    /\ client' = AfterSetJob([client EXCEPT !.isProcessing = TRUE, !.files = files],
                             [status |-> "starting", progress |-> 0, total |-> Len(files)])
    /\ NoCall
    /\ UNCHANGED <<now, requests, nextSweep, rlLog, jobStore, writes, task,
                   issued, calls, doneAt, timers, evicted, preview>>

\* the job state handleBatchProcess sets when the call has returned
JobAfterSubmit(c, answer) ==
    IF "error" \in DOMAIN answer
    THEN Null
    ELSE [jobId |-> answer.jobId, status |-> "processing", progress |-> 0,
          total |-> Len(c.files)]

\* the server runs createProcessImagesJob for the component and
\* handleBatchProcess continues with its answer
SubmitReturns(hdr) ==
    /\ client.job # Null
    /\ client.job.status = "starting"
    /\ CreateProcessImagesJob(hdr, client.files, FieldJson(GoodSettings))
    /\ client' = AfterSetJob([client EXCEPT !.isProcessing =
                                  IF "error" \in DOMAIN reply' THEN FALSE ELSE @],
                             JobAfterSubmit(client, reply'))

\* the job state after the interval callback has its answer: setJob(currentJob)
\* when it is not null, then setJob(null) when it is 'failed'
JobAfterPoll(c, currentJob) ==
    IF currentJob = Null THEN c.job
    ELSE IF currentJob.status = "failed" THEN Null
    ELSE currentJob

\* one run of the interval callback: getJobStatus(job.jobId) and the
\* continuation with its answer
PollTick ==
    /\ Polling(client)
    /\ GetJobStatus(client.job.jobId)
    /\ client' = IF reply'.job = Null THEN client
                 ELSE AfterSetJob(client, JobAfterPoll(client, reply'.job))

(***************************************************************************)
(* The PreviewArea component (src/unnamed/part_002): the props activeFile   *)
(* and settings, the state optimizedData and isLoading, and the preview     *)
(* effect.  A render with changed props and the effect run that follows it  *)
(* (clean-up of the previous run, then the new run) are one step.  Every    *)
(* run of the effect with a file has a number, gen; optimizedData records   *)
(* the run whose request produced it.                                       *)
(***************************************************************************)
\* the ImageFile objects a preview may be asked for
PreviewFiles == {[id |-> "f1"], [id |-> "f2"]}

PreviewSettings == {"s1", "s2"}

\* the variables PreviewArea has no access to
ServerVars == <<now, requests, nextSweep, rlLog, jobStore, writes, task, issued,
                calls, reply, timers, doneAt, evicted, client>>

\* the component mounted without a file: the effect has returned at its
\* first test
PreviewIdle ==
    [activeFile |-> Null, settings |-> "s1", optimizedData |-> Null,
     isLoading |-> FALSE, gen |-> 0, timer |-> Null, inflight |-> {}]

\* the clean-up of the previous run: isCancelled = true in its closure,
\* clearTimeout(timeoutId)
PreviewCleanup(p) ==
    [p EXCEPT !.timer = Null,
              !.inflight = {[r EXCEPT !.isCancelled = TRUE] : r \in @}]

\* a render with a new activeFile or settings, and the effect: the clean-up
\* of the previous run, then either setOptimizedData(null) and return (no
\* file), or setIsLoading(true) and setTimeout(process, 300)
PreviewRender(file, settings) ==
    /\ preview.gen < MaxPreviews
    /\ <<file, settings>> # <<preview.activeFile, preview.settings>>
    /\ LET p == [PreviewCleanup(preview) EXCEPT !.activeFile = file,
                                                !.settings = settings]
       IN  preview' =
             IF file = Null
             THEN [p EXCEPT !.optimizedData = Null]
             ELSE [p EXCEPT !.isLoading = TRUE,
                            !.gen = @ + 1,
                            !.timer = [gen |-> p.gen + 1, file |-> file,
                                       settings |-> settings]]
    /\ UNCHANGED ServerVars

\* the debounce timer fires: process() runs up to
\* await processImageForPreview(formData)
PreviewTimerFires ==
    /\ preview.timer # Null
    /\ preview' = [preview EXCEPT
                      !.timer = Null,
                      !.inflight = @ \cup {[gen |-> preview.timer.gen,
                                            file |-> preview.timer.file,
                                            settings |-> preview.timer.settings,
                                            isCancelled |-> FALSE]}]
    /\ UNCHANGED ServerVars

\* mutant: the continuation does not look at isCancelled
Superseded_Ignored(r) == FALSE

\* if (isCancelled) return, after the await and in the catch and finally
\* blocks
Superseded(r) == r.isCancelled

\* the request r is answered (success with data, success: false, or the
\* call throws) and process() runs to its end
PreviewResponds(r, outcome) ==
    /\ r \in preview.inflight
    /\ LET p == [preview EXCEPT !.inflight = @ \ {r}]
       IN  preview' =
             IF Superseded(r) THEN p
             ELSE IF outcome = "data"
             THEN [p EXCEPT !.optimizedData = [gen |-> r.gen, file |-> r.file,
                                               settings |-> r.settings],
                            !.isLoading = FALSE]
             ELSE [p EXCEPT !.optimizedData = Null, !.isLoading = FALSE]
    /\ UNCHANGED ServerVars

Init ==
    /\ now = 0
    /\ requests = <<>>
    /\ nextSweep = RATE_LIMIT_WINDOW_MS
    /\ rlLog = <<>>
    /\ jobStore = <<>>
    /\ writes = <<>>
    /\ task = <<>>
    /\ issued = 0
    /\ calls = 0
    /\ reply = <<>>
    /\ timers = {}
    /\ doneAt = <<>>
    /\ evicted = {}
    /\ client = ClientIdle
    /\ preview = PreviewIdle

\* the settings of the submissions that start jobs, and one rejected field
JobFields == {FieldJson(GoodSettings), FieldAbsent}

Next ==
    \/ \E hdr \in Headers, files \in Batches, field \in JobFields :
          CreateProcessImagesJob(hdr, files, field) /\ UNCHANGED <<client, preview>>
    \/ \E j \in 1..MaxJobs : TaskStep(j)

\* submissions and background tasks, at one instant of the limiter's clock
Spec == Init /\ [][Next]_vars

\* the submission handler over every kind of input, at one instant of the
\* limiter's clock; the background tasks stay at their first await
NextSubmit ==
    \E hdr \in Headers, files \in Batches, field \in SettingsFields :
      CreateProcessImagesJob(hdr, files, field) /\ UNCHANGED <<client, preview>>

SpecSubmit == Init /\ [][NextSubmit]_vars

\* the rate limiter on its own, under the clock: direct calls, the sweep
\* and the passing of time
NextRL ==
    \/ \E hdr \in Headers : CheckRateLimitCall(IpOf(hdr))
    \/ Sweep
    \/ Tick

SpecRL == Init /\ [][NextRL]_vars

\* the rate limiter with its interval served on time: the clock does not
\* pass the due time of the sweep before the sweep has run
NextSweeper ==
    \/ \E hdr \in Headers : CheckRateLimitCall(IpOf(hdr))
    \/ Sweep
    \/ (now < nextSweep /\ Tick)

SpecSweeper == Init /\ [][NextSweeper]_vars

\* batches a job is made of
JobBatches == {b \in Batches : 1 <= Len(b) /\ Len(b) <= BATCH_LIMIT}

\* the task steps in which every buffer has byteLength 1 and, of the awaits,
\* only optimizeImage may reject
PlainTaskStep(j) ==
    \/ ReadFulfilled(j)
    \/ OptimizeFulfilled(j, 1)
    \/ OptimizeRejected(j)
    \/ ZipFulfilled(j)

\* file names with one suffix, with the same base and another suffix, with
\* two dots, and with no dot
FileNames ==
    { <<"a", ".", "png">>, <<"a", ".", "jpg">>, <<"b", ".", "png">>,
      <<"a", ".", "b", ".", "png">>, <<"noext">> }

\* batches of 1 .. BATCH_LIMIT files of any names
NamedBatches ==
    UNION {[1..n -> {[name |-> x] : x \in FileNames}] : n \in 1..BATCH_LIMIT}

\* one client submitting batches of any file names, one job after the other
NextNames ==
    \/ \E files \in NamedBatches :
          /\ \A j \in DOMAIN task : task[j].pc = "done"
          /\ CreateProcessImagesJob(NoHeader, files, FieldJson(GoodSettings))
          /\ UNCHANGED <<client, preview>>
    \/ \E j \in 1..MaxJobs : PlainTaskStep(j)

SpecNames == Init /\ [][NextNames]_vars

\* the component, the server actions it calls and the background tasks
NextClient ==
    \/ \E files \in Batches : HandleBatchProcess(files)
    \/ \E hdr \in Headers : SubmitReturns(hdr) /\ UNCHANGED preview
    \/ PollTick /\ UNCHANGED preview
    \/ \E j \in 1..MaxJobs : PlainTaskStep(j)

SpecClient == Init /\ [][NextClient]_vars

\* jobs of either revision of createProcessImagesJob, each running the
\* background task of its own revision
NextRevisions ==
    \/ \E files \in JobBatches :
          CreateProcessImagesJob(NoHeader, files, FieldJson(GoodSettings))
          /\ UNCHANGED <<client, preview>>
    \/ \E files \in JobBatches :
          CreateProcessImagesJobUploading(NoHeader, files, FieldJson(GoodSettings))
          /\ UNCHANGED <<client, preview>>
    \/ \E j \in 1..MaxJobs : TaskStep(j)
    \/ \E j \in 1..MaxJobs : UpTaskStep(j)

SpecRevisions == Init /\ [][NextRevisions]_vars

\* the preview component on its own: renders with new props, the debounce
\* timer and the answers to the requests, in any order
NextPreview ==
    \/ \E file \in PreviewFiles \cup {Null}, settings \in PreviewSettings :
          PreviewRender(file, settings)
    \/ PreviewTimerFires
    \/ \E r \in preview.inflight, outcome \in {"data", "error", "throw"} :
          PreviewResponds(r, outcome)

SpecPreview == Init /\ [][NextPreview]_vars

\* jobs submitted at time 0, polls of any id by any client, the clean-up
\* timers and the clock up to MaxPollTime
NextPoll ==
    \/ \E files \in JobBatches :
          /\ now = 0
          /\ CreateProcessImagesJob(NoHeader, files, FieldJson(GoodSettings))
          /\ UNCHANGED <<client, preview>>
    \/ \E j \in 1..MaxJobs : PlainTaskStep(j)
    \/ \E jobId \in 1..MaxJobs : GetJobStatus(jobId) /\ UNCHANGED <<client, preview>>
    \/ \E t \in timers : TimerFires(t)
    \/ (now < MaxPollTime /\ Tick)

SpecPoll == Init /\ [][NextPoll]_vars

\* the background tasks are scheduled fairly: an await that has settled is
\* resumed by the event loop
FairSpec == Spec /\ \A j \in 1..MaxJobs : WF_vars(TaskStep(j))

(***************************************************************************)
(* Properties.                                                             *)
(***************************************************************************)
Terminal(j) ==
    j \in DOMAIN jobStore /\ jobStore[j].status \in {"completed", "failed"}

Completed(j) == j \in DOMAIN jobStore /\ jobStore[j].status = "completed"

\* C1: every accepted job eventually has a stored status of 'completed' or
\* 'failed', when every await settles and the background tasks are
\* scheduled fairly.
C1_EventuallyTerminal ==
    \A j \in 1..MaxJobs : (j \in DOMAIN task) ~> Terminal(j)

\* a multi-file job has run to completion through every item
C1_Witness ==
    \E j \in DOMAIN jobStore :
        /\ Completed(j)
        /\ jobStore[j].total >= 2
        /\ task[j].pc = "done"

\* C2: in the sequence of records written for a job id, progress never
\* decreases from one record to the next and 0 <= progress <= total in each,
\* the 'failed' record of the catch block included.
C2_ProgressMonotone ==
    \A j \in DOMAIN writes :
        \A k \in 1..Len(writes[j]) :
            /\ 0 <= writes[j][k].progress
            /\ writes[j][k].progress <= writes[j][k].total
            /\ k > 1 => writes[j][k - 1].progress <= writes[j][k].progress

\* a job failed after at least one item had been transcoded
C2_Witness ==
    \E j \in DOMAIN writes :
        LET last == writes[j][Len(writes[j])]
        IN  last.status = "failed" /\ last.progress >= 1

\* C3: a job whose stored status is 'completed' has progress = total, and
\* total is the number of files submitted.
C3_CompletedProgress ==
    \A j \in DOMAIN jobStore :
        Completed(j) =>
            /\ jobStore[j].progress = jobStore[j].total
            /\ jobStore[j].total = Len(task[j].files)

\* a file job and an archive job are both completed
C3_Witness ==
    \E j, k \in DOMAIN jobStore :
        /\ Completed(j) /\ jobStore[j].total = 1
        /\ Completed(k) /\ jobStore[k].total >= 2

RECURSIVE WindowOpener(_, _)
WindowOpener(log, k) ==
    IF k = 1 THEN 1
    ELSE LET o == WindowOpener(log, k - 1)
         IN  IF log[k][1] - log[o][1] > RATE_LIMIT_WINDOW_MS THEN k ELSE o

\* the calls allowed in the window of call k before call k
AllowedBefore(log, k) ==
    Cardinality({m \in WindowOpener(log, k)..(k - 1) : log[m][2]})

\* C5: for one identity, once RATE_LIMIT_MAX_REQUESTS calls have been allowed
\* inside the current window every further call inside that window is
\* denied, and the first call made more than RATE_LIMIT_WINDOW_MS after the
\* window start is allowed again.
C5_WindowLimit ==
    \A ip \in DOMAIN rlLog :
        \A k \in 1..Len(rlLog[ip]) :
            LET log == rlLog[ip]
            IN  /\ (WindowOpener(log, k) < k /\ AllowedBefore(log, k) >= RATE_LIMIT_MAX_REQUESTS)
                       => ~log[k][2]
                /\ WindowOpener(log, k) = k => log[k][2]

\* an identity was admitted up to the maximum, then denied inside the
\* window, then admitted again after the window had passed
C5_Witness ==
    \E ip \in DOMAIN rlLog :
        \E k \in 2..Len(rlLog[ip]) :
            /\ ~rlLog[ip][k - 1][2]
            /\ rlLog[ip][k][2]
            /\ WindowOpener(rlLog[ip], k) = k
            /\ AllowedBefore(rlLog[ip], k - 1) >= RATE_LIMIT_MAX_REQUESTS

(***************************************************************************)
(* Submissions.  A step is a call createProcessImagesJob(hdr, files,       *)
(* field) when it satisfies that action for those arguments.               *)
(***************************************************************************)
ReturnsError == "error" \in DOMAIN reply' /\ "jobId" \notin DOMAIN reply'

ReturnsJobId == "jobId" \in DOMAIN reply' /\ "error" \notin DOMAIN reply'

\* nothing is stored and no background task is started
NoJobCreated == jobStore' = jobStore /\ task' = task /\ issued' = issued

\* the settings object is outside the schema: format not in the enum,
\* quality not an integer in 1..100, width or height neither null nor an
\* integer >= 1
OutsideSchema(obj) ==
    LET NotIntAtLeastOne(v) == v.t # "num" \/ v.twice % 2 = 1 \/ v.twice < 2
    IN  \/ obj.format \notin {"jpeg", "png", "webp", "avif", "tiff", "bmp", "gif"}
        \/ NotIntAtLeastOne(obj.quality)
        \/ obj.quality.twice > 200
        \/ (obj.width.t # "null" /\ NotIntAtLeastOne(obj.width))
        \/ (obj.height.t # "null" /\ NotIntAtLeastOne(obj.height))

\* settings missing, not parseable, or outside the schema
BadSettings(field) == field.kind # "json" \/ OutsideSchema(field.obj)

\* C6: with valid settings and the limiter's admission, a batch is rejected
\* iff its size is 0 or above BATCH_LIMIT (exactly BATCH_LIMIT files are
\* accepted); an oversize batch gets an error, no jobId, and jobStore is
\* unchanged.
C6_BatchSize ==
    [][\A hdr \in Headers, files \in Batches, field \in SettingsFields :
         CreateProcessImagesJob(hdr, files, field) =>
            /\ (Len(files) = 0 \/ Len(files) > BATCH_LIMIT)
                  => (ReturnsError /\ NoJobCreated)
            /\ (1 <= Len(files) /\ Len(files) <= BATCH_LIMIT
                  /\ ~BadSettings(field) /\ ~RateLimitDenied(IpOf(hdr)))
                  => (ReturnsJobId /\ reply'.jobId \in DOMAIN jobStore'
                      /\ jobStore'[reply'.jobId].total = Len(files))]_vars

\* an oversize batch was rejected after a batch of exactly BATCH_LIMIT files
\* had been accepted
C6_Witness ==
    /\ reply = [error |-> "Batch limit exceeded."]
    /\ \E j \in DOMAIN jobStore : jobStore[j].total = BATCH_LIMIT

\* C7: a submission with an empty batch or with settings that are missing,
\* not parseable or outside the schema returns an error and no jobId, adds
\* no record to jobStore and starts no background task.
C7_InvalidRejected ==
    [][\A hdr \in Headers, files \in Batches, field \in SettingsFields :
         (CreateProcessImagesJob(hdr, files, field)
            /\ (Len(files) = 0 \/ BadSettings(field)))
         => (ReturnsError /\ NoJobCreated)]_vars

\* settings outside the schema were rejected while a job was stored
C7_Witness ==
    /\ reply = [error |-> "Invalid settings provided."]
    /\ DOMAIN jobStore # {}

\* C8: when checkRateLimit denies the caller, createProcessImagesJob returns
\* an error without a jobId, jobStore is unchanged and no background task is
\* started.
C8_DeniedRejected ==
    [][\A hdr \in Headers, files \in Batches, field \in SettingsFields :
         (CreateProcessImagesJob(hdr, files, field) /\ RateLimitDenied(IpOf(hdr)))
         => (ReturnsError /\ NoJobCreated)]_vars

\* a caller was turned away by the limiter while jobs of earlier calls exist
C8_Witness ==
    /\ reply = [error |-> "Too many requests. Please try again in a minute."]
    /\ DOMAIN jobStore # {}

(***************************************************************************)
(* The shape of the result.                                                *)
(***************************************************************************)
\* the byteLengths of the transcoded buffers a result carries
ResultSizes(result) ==
    IF result.type = "file" THEN {result.data.size}
    ELSE {e.size : e \in result.data}

AllBelowCeiling(result) == \A x \in ResultSizes(result) : x < SizeCeiling

SomeAtCeiling(result) == \E x \in ResultSizes(result) : x >= SizeCeiling

C10_ArchiveAtCeiling ==
    \A j \in DOMAIN jobStore :
        (Completed(j) /\ SomeAtCeiling(jobStore[j].result)) =>
            jobStore[j].result.type = "zip"

\* C10 amended: a batch with an item transcoded at or above the size ceiling
\* completes with a single archive (type 'zip', named
\* 'optimized-images.zip') when it has two or more items and with a single
\* direct file when it has one; in neither case is a link delivered.
C10_ArchiveOrFileAtCeiling ==
    \A j \in DOMAIN jobStore :
        (Completed(j) /\ SomeAtCeiling(jobStore[j].result)) =>
            LET r == jobStore[j].result
            IN  IF jobStore[j].total >= 2
                THEN r.type = "zip" /\ r.filename = "optimized-images.zip"
                ELSE r.type = "file" /\ r.data.size >= SizeCeiling

\* an archive job with an item at the ceiling completed, and so did a
\* single-file job whose item is at the ceiling
C10_Witness ==
    \E j, k \in DOMAIN jobStore :
        /\ Completed(j) /\ SomeAtCeiling(jobStore[j].result) /\ jobStore[j].total >= 2
        /\ Completed(k) /\ SomeAtCeiling(jobStore[k].result) /\ jobStore[k].total = 1

\* the name without its final '.'-suffix; the whole name when it has no '.'
BaseName(name) ==
    IF LastIndexOf(name, ".") = -1 THEN name
    ELSE SubSeq(name, 1, LastIndexOf(name, "."))

\* C20 as claimed: a batch of one item that transcodes completes with a
\* direct file (type 'file') named <base name of the input>.<format>, and its
\* task never builds or generates an archive; a batch of two or more items
\* completes with one 'zip' result.
C20_SingleFileDirect ==
    \A j \in DOMAIN task :
        LET files == task[j].files
        IN  /\ Len(files) = 1 => (task[j].pc # "zip" /\ task[j].zip = {})
            /\ Completed(j) =>
                  LET r == jobStore[j].result
                  IN  IF Len(files) = 1
                      THEN /\ r.type = "file"
                           /\ r.filename = BaseName(files[1].name) \o <<".", task[j].format>>
                      ELSE /\ r.type = "zip"
                           /\ r.filename = "optimized-images.zip"

(***************************************************************************)
(* Failures of the background task.                                        *)
(***************************************************************************)
\* C12: when the transcode of item k (0-based) throws, the record stored is
\* 'failed' with progress k, a non-empty error and no result, and the task
\* has returned: from then on it takes no step (no later item is
\* transcoded) and the stored record stays as it is.
C12_TranscodeFailure ==
    [][\A j \in 1..MaxJobs :
         /\ OptimizeRejected(j) =>
               LET k == task[j].i
                   r == jobStore'[j]
               IN  /\ r.status = "failed"
                   /\ r.progress = k
                   /\ "error" \in DOMAIN r /\ r.error # <<>>
                   /\ "result" \notin DOMAIN r
                   /\ task'[j].pc = "done"
         /\ (j \in DOMAIN task /\ task[j].pc = "done") =>
               (task'[j] = task[j] /\ jobStore'[j] = jobStore[j])]_vars

\* the transcode of the second item of a batch failed, after the first had
\* succeeded
C12_Witness ==
    \E j \in DOMAIN jobStore :
        /\ jobStore[j].status = "failed"
        /\ jobStore[j].error[2] = "transcode failed"
        /\ jobStore[j].progress = 1
        /\ jobStore[j].total >= 2

(***************************************************************************)
(* Registration of a job.                                                  *)
(***************************************************************************)
\* C14 as claimed: the first record stored for a newly issued job id has
\* status 'starting'.
C14_FirstRecordStarting ==
    \A j \in DOMAIN writes : writes[j][1].status = "starting"

\* C14 amended: the first record stored for a newly issued job id is
\* { status: 'processing', progress: 0, total: n }, written before the
\* background task is launched, and no record with status 'starting' is ever
\* stored.
C14_FirstRecordProcessing ==
    \A j \in DOMAIN writes :
        /\ writes[j][1] = [status |-> "processing", progress |-> 0,
                            total |-> Len(task[j].files)]
        /\ \A k \in 1..Len(writes[j]) :
               writes[j][k].status \in {"processing", "completed", "failed"}

\* a job is registered and its task is waiting for its second item
C14_Witness ==
    \E j \in DOMAIN writes :
        /\ Len(writes[j]) = 3
        /\ task[j].pc = "read"
        /\ task[j].i = 1

\* C15: when createProcessImagesJob returns a jobId, the background task of
\* that job is suspended at the read of item 0, so optimizeImage has not been
\* called for any of its items, and the stored record of the job has
\* progress 0.
C15_ReturnsBeforeTranscode ==
    [][\A hdr \in Headers, files \in Batches, field \in JobFields :
         (CreateProcessImagesJob(hdr, files, field) /\ ReturnsJobId) =>
            LET jobId == reply'.jobId
            IN  /\ jobId \notin DOMAIN task
                /\ task'[jobId].pc = "read"
                /\ task'[jobId].i = 0
                /\ task'[jobId].zip = {}
                /\ jobStore'[jobId].status = "processing"
                /\ jobStore'[jobId].progress = 0]_vars

\* a call has just returned the id of a second job while the first job is
\* being transcoded
C15_Witness ==
    /\ "jobId" \in DOMAIN reply
    /\ jobStore[reply.jobId].progress = 0
    /\ \E j \in DOMAIN task : j # reply.jobId /\ task[j].pc = "optimize"

(***************************************************************************)
(* The entries of the archive.                                             *)
(***************************************************************************)
\* C13 as claimed: an archive result of a batch of n >= 2 items has exactly
\* n entries, whatever the names of the input files are.
C13_ArchiveHasEveryItem ==
    \A j \in DOMAIN jobStore :
        (Completed(j) /\ jobStore[j].result.type = "zip") =>
            /\ jobStore[j].total >= 2
            /\ Cardinality(jobStore[j].result.data) = jobStore[j].total

\* a step in which an await of job j's task rejects
TaskRejects(j) == ReadRejected(j) \/ OptimizeRejected(j) \/ ZipRejected(j)

\* C17: whichever await of a job's task rejects (the read of a file, the
\* transcode of an item, the generation of the archive), the task catches
\* it, stores a 'failed' record with a non-empty error for its own id and
\* returns; the step gives no answer to any submission and leaves the
\* record and the task of every other job as they were.
C17_ErrorsCaught ==
    [][\A j \in 1..MaxJobs :
         TaskRejects(j) =>
            /\ jobStore'[j].status = "failed"
            /\ "error" \in DOMAIN jobStore'[j]
            /\ jobStore'[j].error # <<>>
            /\ \A m \in 1..Len(jobStore'[j].error) : jobStore'[j].error[m] # ""
            /\ task'[j].pc = "done"
            /\ reply' = <<>>
            /\ issued' = issued
            /\ \A k \in DOMAIN task \ {j} :
                  task'[k] = task[k] /\ jobStore'[k] = jobStore[k]]_vars

\* two jobs have failed, one at the read of a file and one at the generation
\* of the archive
C17_Witness ==
    \E j, k \in DOMAIN jobStore :
        /\ jobStore[j].status = "failed" /\ jobStore[j].error[2] = "read failed"
        /\ jobStore[k].status = "failed" /\ jobStore[k].error[2] = "zip failed"

(***************************************************************************)
(* The component's polling.                                                *)
(***************************************************************************)
\* C19 as claimed: once a submission has succeeded the component keeps its
\* polling interval running until a poll has returned a record with status
\* 'completed' or 'failed': the interval stops only in a step whose poll
\* returned such a record.
C19_PollsUntilTerminal ==
    [][(Polling(client) /\ ~Polling(client')) =>
          /\ "polled" \in DOMAIN reply'
          /\ reply'.job # Null
          /\ IsTerminal(reply'.job)]_vars

(***************************************************************************)
(* Polling and eviction.                                                   *)
(***************************************************************************)
\* C16: a stored record with status 'completed' or 'failed' is changed by no
\* step: the only step that touches it is the step of a clean-up timer,
\* which removes it.
C16_TerminalImmutable ==
    [][\A j \in 1..MaxJobs :
         Terminal(j) =>
            IF j \in DOMAIN jobStore'
            THEN jobStore'[j] = jobStore[j]
            ELSE \E t \in timers : t.jobId = j /\ TimerFires(t)]_vars

\* a terminal record has been evicted while another terminal record, of a
\* failed job, is still stored
C16_Witness ==
    /\ evicted # {}
    /\ \E j \in DOMAIN jobStore : jobStore[j].status = "failed"
    /\ \E j \in evicted : writes[j][Len(writes[j])].status = "completed"

\* C18: getJobStatus(jobId) returns the record most recently written for
\* jobId, or null when the id was never issued or its record has been
\* evicted; it always returns, and the contents of jobStore are the same
\* after the call as before it.
C18_PollIsRead ==
    [][\A jobId \in 1..MaxJobs :
         GetJobStatus(jobId) =>
            /\ reply'.polled = jobId
            /\ reply'.job = IF jobId \in DOMAIN writes /\ jobId \notin evicted
                            THEN writes[jobId][Len(writes[jobId])]
                            ELSE Null
            /\ jobStore' = jobStore]_vars

\* a poll of an evicted id has just returned null while the record of a
\* running job is stored
C18_Witness ==
    /\ "polled" \in DOMAIN reply
    /\ reply.polled \in evicted
    /\ reply.job = Null
    /\ \E j \in DOMAIN jobStore : jobStore[j].status = "processing" /\ jobStore[j].progress >= 1

\* C11 as claimed: a getJobStatus call made more than EVICTION_DELAY_MS
\* after the job's terminal record was written returns null, whatever polls
\* were made before it (none included).
C11_NullAfterDelay ==
    [][\A jobId \in 1..MaxJobs :
         (GetJobStatus(jobId)
            /\ jobId \in DOMAIN doneAt
            /\ now - doneAt[jobId] > EVICTION_DELAY_MS)
         => reply'.job = Null]_vars

(***************************************************************************)
(* The order of the transcodes of one job.  The transcode of item          *)
(* task[j].i is in flight exactly while the task is suspended at           *)
(* "optimize"; the task has one suspension point at a time.                *)
(***************************************************************************)
InFlight(t) == t.pc = "optimize"

\* C22: within one job the transcodes run one at a time in batch order: the
\* transcode of item i starts only from the read of item i, when none is in
\* flight and exactly the items before i have been transcoded (the stored
\* progress is i); the index moves on only when the transcode in flight has
\* returned successfully, and then by one.
C22_SequentialTranscodes ==
    [][\A j \in DOMAIN task :
         /\ (~InFlight(task[j]) /\ InFlight(task'[j])) =>
               /\ task[j].pc = "read"
               /\ task'[j].i = task[j].i
               /\ jobStore[j].status = "processing"
               /\ jobStore[j].progress = task[j].i
         /\ (InFlight(task[j]) /\ InFlight(task'[j])) => task'[j] = task[j]
         /\ (task'[j].i # task[j].i /\ task'[j].pc # "done") =>
               /\ InFlight(task[j])
               /\ ~InFlight(task'[j])
               /\ task'[j].i = task[j].i + 1
               /\ jobStore'[j].progress = task'[j].i]_vars

\* the transcode of the second item of a job is in flight while another job
\* is transcoding its first
C22_Witness ==
    \E j, k \in DOMAIN task :
        /\ InFlight(task[j]) /\ task[j].i = 1
        /\ InFlight(task[k]) /\ task[k].i = 0

(***************************************************************************)
(* The status machine, over both revisions of createProcessImagesJob.      *)
(***************************************************************************)
\* the statuses stored for job j, in the order of the writes
Statuses(j) == [k \in 1..Len(writes[j]) |-> writes[j][k].status]

\* the place of a non-failed status on the path Starting -> Processing ->
\* Uploading -> Completed
Rank(status) ==
    CASE status = "starting" -> 0
      [] status = "processing" -> 1
      [] status = "uploading" -> 2
      [] status = "completed" -> 3

\* C21: the statuses stored for a job id follow the machine Starting ->
\* Processing -> (Uploading) -> Completed, with Failed reachable from any
\* non-terminal state: nothing is written after 'completed' or 'failed', a
\* status other than 'failed' is never behind the one stored before it, and
\* 'completed' is written only after a 'processing' record.  (The paths of
\* the code begin at Processing.)
C21_StatusPath ==
    \A j \in DOMAIN writes :
        LET st == Statuses(j)
        IN  \A k \in 1..Len(st) :
              /\ st[k] \in {"starting", "processing", "uploading", "completed", "failed"}
              /\ k > 1 => st[k - 1] \notin {"completed", "failed"}
              /\ (k > 1 /\ st[k] # "failed") => Rank(st[k - 1]) <= Rank(st[k])
              /\ st[k] = "completed" => \E m \in 1..(k - 1) : st[m] = "processing"

\* one job went through 'processing' and 'uploading' to 'completed', another
\* failed out of 'uploading'
C21_Witness ==
    \E j, k \in DOMAIN writes :
        /\ \E m \in 2..(Len(writes[j]) - 1) :
              /\ Statuses(j)[m - 1] = "processing"
              /\ Statuses(j)[m] = "uploading"
              /\ Statuses(j)[m + 1] = "completed"
        /\ \E m \in 2..Len(writes[k]) :
              /\ Statuses(k)[m - 1] = "uploading"
              /\ Statuses(k)[m] = "failed"

\* zip.generateAsync is running for job j
Archiving(j) == task[j].pc \in {"zip", "up-zip"}

TerminalActionFails(j) ==
    ZipRejected(j) \/ UpZipRejected(j) \/ UpTokenRejected(j) \/ UpPostFailed(j)

\* C24: when every item has been transcoded and the terminal action fails,
\* the job is stored as 'failed' with a non-empty error and no result, and
\* its progress is the value stored before the failure, the batch size.
C24_TerminalActionFailure ==
    [][\A j \in 1..MaxJobs :
         TerminalActionFails(j) =>
            /\ jobStore'[j].status = "failed"
            /\ "error" \in DOMAIN jobStore'[j] /\ jobStore'[j].error # <<>>
            /\ "result" \notin DOMAIN jobStore'[j]
            /\ jobStore'[j].progress = jobStore[j].progress
            /\ jobStore'[j].progress = Len(task[j].files)
            /\ jobStore'[j].total = Len(task[j].files)]_vars

\* the archive of one job could not be generated and the upload of another
\* failed, both after two items had been transcoded
C24_Witness ==
    \E j, k \in DOMAIN jobStore :
        /\ jobStore[j].status = "failed" /\ jobStore[j].error[2] = "zip failed"
        /\ jobStore[j].progress = 2
        /\ jobStore[k].status = "failed" /\ jobStore[k].error[2] = "Postimages upload failed"
        /\ jobStore[k].progress = 2

(***************************************************************************)
(* The records of a job while its items are transcoded.                     *)
(***************************************************************************)
\* C25: while item i (0-based) is read and transcoded the stored record is
\* 'processing' with progress i and the info naming item i; the first record
\* stored after item i is transcoded is 'processing' with progress i + 1;
\* no record ever stored with status 'completed' or 'failed' has an info.
C25_ProgressAndInfo ==
    [][\A j \in DOMAIN task' :
         /\ task'[j].pc \in {"read", "optimize"} =>
               LET i == task'[j].i
                   r == jobStore'[j]
               IN  /\ r.status = "processing"
                   /\ r.progress = i
                   /\ r.total = Len(task'[j].files)
                   /\ "info" \in DOMAIN r
                   /\ r.info = <<"Optimizing ", task'[j].files[i + 1].name, "...">>
         /\ (\E size \in 0..MaxSize : OptimizeFulfilled(j, size)) =>
               LET w == writes'[j][Len(writes[j]) + 1]
               IN  /\ Len(writes'[j]) > Len(writes[j])
                   /\ w.status = "processing"
                   /\ w.progress = task[j].i + 1
         /\ \A k \in 1..Len(writes'[j]) :
               writes'[j][k].status \in {"completed", "failed"} =>
                   "info" \notin DOMAIN writes'[j][k]]_vars

\* a batch of two is completed after the record naming its second item was
\* stored with progress 1, and another job failed while an info was stored
C25_Witness ==
    \E j, k \in DOMAIN writes :
        /\ jobStore[j].status = "completed"
        /\ "info" \notin DOMAIN jobStore[j]
        /\ \E x \in 1..Len(writes[j]) :
              /\ "info" \in DOMAIN writes[j][x]
              /\ writes[j][x].progress = 1
              /\ writes[j][x].info[2] = task[j].files[2].name
        /\ jobStore[k].status = "failed"
        /\ "info" \in DOMAIN writes[k][Len(writes[k]) - 1]

(***************************************************************************)
(* The place of the rate limiter among the checks of a submission.         *)
(***************************************************************************)
ValidationErrors ==
    {"Missing files or settings.", "Batch limit exceeded.",
     "Failed to create job: ", "Invalid settings provided."}

SameAt(m, n, b) ==
    /\ b \in DOMAIN m <=> b \in DOMAIN n
    /\ b \in DOMAIN m => m[b] = n[b]

\* the <<status, progress>> pairs of a sequence of records
StatusProgress(ws) == [x \in 1..Len(ws) |-> <<ws[x].status, ws[x].progress>>]

\* the pairs a job of n items stores when it runs alone and succeeds: the
\* initial record, the record of item 0, one record after each item, the
\* completed record
AloneCompleted(n) ==
    [x \in 1..(n + 3) |->
        IF x = n + 3 THEN <<"completed", n>>
        ELSE IF x <= 2 THEN <<"processing", 0>>
        ELSE <<"processing", x - 2>>]

\* the pairs a job of n items stores when it runs alone and fails after k
\* items
AloneFailed(n, k) == SubSeq(AloneCompleted(n), 1, k + 2) \o << <<"failed", k>> >>

IsPrefix(s, t) == Len(s) <= Len(t) /\ SubSeq(t, 1, Len(s)) = s

\* C27: a step of job a's background task, a poll of a and a clean-up timer
\* of a leave the record, the write history and the task of every other job
\* b as they were; a submission leaves every existing job as it was; and
\* whatever the interleaving, the statuses and progress values stored for a
\* job are those of the job running alone.
C27_JobsIsolated ==
    [][/\ \A a \in 1..MaxJobs :
            (\/ PlainTaskStep(a)
             \/ GetJobStatus(a)
             \/ \E t \in timers : t.jobId = a /\ TimerFires(t)
             \/ (issued' = a /\ issued # a))
            => \A b \in (1..MaxJobs) \ {a} :
                  /\ SameAt(jobStore, jobStore', b)
                  /\ SameAt(writes, writes', b)
                  /\ SameAt(task, task', b)
       /\ \A b \in DOMAIN writes' :
            LET n == Len(task'[b].files)
                sp == StatusProgress(writes'[b])
            IN  \/ IsPrefix(sp, AloneCompleted(n))
                \/ \E k \in 0..n : IsPrefix(sp, AloneFailed(n, k))]_vars

\* the record of one job has been evicted while the second item of another
\* job is being transcoded
C27_Witness ==
    \E a \in evicted, b \in DOMAIN jobStore :
        /\ a # b
        /\ task[b].pc = "optimize" /\ task[b].i = 1
        /\ jobStore[b].status = "processing"

(***************************************************************************)
(* The rate limiter: new windows and the sweep.                            *)
(***************************************************************************)
\* a step that is the call checkRateLimit(ip) and returns { success: ok }
Answered(ip, ok) ==
    /\ CheckRateLimitCall(ip)
    /\ rlLog'[ip][Len(rlLog'[ip])] = <<now, ok>>

\* C28: a call for an identity without a record, and a call made more than
\* RATE_LIMIT_WINDOW_MS after the window start of the identity's record, are
\* allowed and leave the identity with the record { count: 1, startTime:
\* now }, whatever the count of the record was.
C28_NewWindow ==
    [][\A hdr \in Headers :
         LET ip == IpOf(hdr)
         IN  (CheckRateLimitCall(ip)
                /\ (ip \in DOMAIN requests
                       => now - requests[ip].startTime > RATE_LIMIT_WINDOW_MS))
             => /\ Answered(ip, TRUE)
                /\ requests'[ip] = [count |-> 1, startTime |-> now]
                /\ \A other \in DOMAIN requests \ {ip} :
                      other \in DOMAIN requests' /\ requests'[other] = requests[other]]_vars

\* a record that had reached the maximum and refused a call was replaced,
\* after its window had passed, by a record of count 1 that starts now
C28_Witness ==
    \E ip \in DOMAIN requests :
        /\ requests[ip] = [count |-> 1, startTime |-> now]
        /\ Len(rlLog[ip]) = RATE_LIMIT_MAX_REQUESTS + 2
        /\ ~rlLog[ip][RATE_LIMIT_MAX_REQUESTS + 1][2]
        /\ rlLog[ip][RATE_LIMIT_MAX_REQUESTS + 2] = <<now, TRUE>>
        /\ nextSweep = RATE_LIMIT_WINDOW_MS

\* C29: right after a run of the sweep the map holds no record older than
\* RATE_LIMIT_WINDOW_MS and every record not older than that is still
\* there; with the sweep run on time every RATE_LIMIT_WINDOW_MS, no record
\* is ever older than 2 * RATE_LIMIT_WINDOW_MS.
C29_SweepRemovesExpired ==
    [][/\ nextSweep' # nextSweep =>
            /\ \A ip \in DOMAIN requests' :
                  now' - requests'[ip].startTime <= RATE_LIMIT_WINDOW_MS
            /\ \A ip \in DOMAIN requests :
                  now - requests[ip].startTime <= RATE_LIMIT_WINDOW_MS
                     => (ip \in DOMAIN requests' /\ requests'[ip] = requests[ip])
       /\ \A ip \in DOMAIN requests' :
            now' - requests'[ip].startTime <= 2 * RATE_LIMIT_WINDOW_MS]_vars

\* a record was removed by the sweep exactly 2 * RATE_LIMIT_WINDOW_MS after
\* its window start, while a younger record was kept
C29_Witness ==
    \E ip \in DOMAIN rlLog, other \in DOMAIN requests :
        /\ ip \notin DOMAIN requests
        /\ Len(rlLog[ip]) = 1
        /\ rlLog[ip][1][1] = now - 2 * RATE_LIMIT_WINDOW_MS
        /\ requests[other].startTime < now
        /\ nextSweep = now + RATE_LIMIT_WINDOW_MS

(***************************************************************************)
(* The names of the outputs.                                               *)
(***************************************************************************)
\* the name claimed for the output of a file: its base name, '.', the format
OutputName(file, format) == BaseName(file.name) \o <<".", format>>

\* C30 as claimed: the output of every transcoded file, the entry added to
\* the archive or the direct file of a single-file job, is named by the
\* input's name without its final '.'-suffix followed by '.' and the target
\* format; a name without '.' is kept whole.
C30_OutputNames ==
    \A j \in DOMAIN task :
        LET t == task[j]
            n == Len(t.files)
        IN  /\ (n >= 2 /\ t.pc \in {"read", "optimize", "zip"}) =>
                  \A x \in 1..t.i :
                      \E e \in t.zip : e.name = OutputName(t.files[x], t.format)
            /\ (Completed(j) /\ n >= 2) =>
                  \A x \in 1..n :
                      \E e \in jobStore[j].result.data :
                          e.name = OutputName(t.files[x], t.format)
            /\ (Completed(j) /\ n = 1) =>
                  jobStore[j].result.filename = OutputName(t.files[1], t.format)

(***************************************************************************)
(* Callers without an x-forwarded-for header.                              *)
(***************************************************************************)
\* C31: a submission without the x-forwarded-for header is handled under
\* the identity '127.0.0.1': the record of that identity is the only one the
\* call may change, the call is refused by the limiter exactly when that
\* record is at the maximum inside its window, and a valid submission that
\* is not refused starts a job.
C31_FallbackIdentity ==
    [][\A files \in Batches, field \in SettingsFields :
         CreateProcessImagesJob(NoHeader, files, field) =>
            LET AtMax == /\ "127.0.0.1" \in DOMAIN requests
                         /\ requests["127.0.0.1"].count >= RATE_LIMIT_MAX_REQUESTS
                         /\ now - requests["127.0.0.1"].startTime <= RATE_LIMIT_WINDOW_MS
            IN  /\ "127.0.0.1" \in DOMAIN requests'
                /\ DOMAIN requests' = DOMAIN requests \cup {"127.0.0.1"}
                /\ \A other \in DOMAIN requests \ {"127.0.0.1"} :
                      requests'[other] = requests[other]
                /\ AtMax <=> ("error" \in DOMAIN reply'
                                /\ reply'.error \notin ValidationErrors)
                /\ (~AtMax /\ 1 <= Len(files) /\ Len(files) <= BATCH_LIMIT
                      /\ ~BadSettings(field)) => ReturnsJobId]_vars

\* only callers without the header have called; their shared record is at
\* the maximum, one of them has a job and the last one was refused
C31_Witness ==
    /\ DOMAIN requests = {"127.0.0.1"}
    /\ requests["127.0.0.1"].count = RATE_LIMIT_MAX_REQUESTS
    /\ "error" \in DOMAIN reply
    /\ reply.error = "Too many requests. Please try again in a minute."
    /\ issued >= 1

(***************************************************************************)
(* The rate-limit records.                                                 *)
(***************************************************************************)
\* the calls of ip logged as allowed at or after time t
AllowedSince(ip, t) ==
    Cardinality({k \in 1..Len(rlLog[ip]) : rlLog[ip][k][1] >= t /\ rlLog[ip][k][2]})

\* C32: every rate-limit record has 1 <= count <= RATE_LIMIT_MAX_REQUESTS,
\* and its count is the number of calls allowed for its identity since its
\* window start, whatever the interleaving of the calls of the identities,
\* the sweep and the clock.
C32_CountIsAllowedCalls ==
    \A ip \in DOMAIN requests :
        /\ 1 <= requests[ip].count
        /\ requests[ip].count <= RATE_LIMIT_MAX_REQUESTS
        /\ ip \in DOMAIN rlLog
        /\ requests[ip].count = AllowedSince(ip, requests[ip].startTime)

\* in a window opened after time 0 an identity has been admitted up to the
\* maximum and then refused, while another identity has a record of its own
C32_Witness ==
    \E ip, other \in DOMAIN requests :
        /\ ip # other
        /\ requests[ip].startTime > 0
        /\ requests[ip].count = RATE_LIMIT_MAX_REQUESTS
        /\ ~rlLog[ip][Len(rlLog[ip])][2]

\* C33: a call that is refused leaves the whole map as it was, the record
\* of the refused identity included: its count and its window start are
\* the same after the call.
C33_DenialLeavesRecord ==
    [][\A hdr \in Headers :
         Answered(IpOf(hdr), FALSE) =>
            /\ requests' = requests
            /\ requests'[IpOf(hdr)].startTime = requests[IpOf(hdr)].startTime
            /\ requests'[IpOf(hdr)].count = RATE_LIMIT_MAX_REQUESTS]_vars

\* an identity has just been refused, later than the start of its window
C33_Witness ==
    \E ip \in DOMAIN requests :
        /\ rlLog[ip][Len(rlLog[ip])] = <<now, FALSE>>
        /\ requests[ip].startTime < now
        /\ now - requests[ip].startTime <= RATE_LIMIT_WINDOW_MS

\* the calls of ip logged as allowed at a time in [t, t + RATE_LIMIT_WINDOW_MS]
AllowedWithin(ip, t) ==
    Cardinality({k \in 1..Len(rlLog[ip]) :
                    /\ rlLog[ip][k][2]
                    /\ t <= rlLog[ip][k][1]
                    /\ rlLog[ip][k][1] <= t + RATE_LIMIT_WINDOW_MS})

\* C34: for every identity and every interval of length
\* RATE_LIMIT_WINDOW_MS, wherever it starts, at most
\* 2 * RATE_LIMIT_MAX_REQUESTS calls made in the interval were allowed.
C34_BurstBound ==
    \A ip \in DOMAIN rlLog :
        \A t \in 0..MaxTime :
            AllowedWithin(ip, t) <= 2 * RATE_LIMIT_MAX_REQUESTS

\* across the end of a window, more calls than the maximum of one window
\* were allowed inside one window length: the last call of the old window
\* and a full new window
C34_Witness ==
    \E ip \in DOMAIN rlLog :
        \E t \in 1..MaxTime :
            /\ AllowedWithin(ip, t) = 2 * RATE_LIMIT_MAX_REQUESTS - 1
            /\ rlLog[ip][1][1] < t

(***************************************************************************)
(* The limiter without its sweep: checkRateLimit replayed over the times   *)
(* of a log of calls, the map never swept.                                 *)
(***************************************************************************)
RECURSIVE NeverSweptRecord(_, _)
\* the record of the identity after the first k calls of log; <<>> before
\* the first call
NeverSweptRecord(log, k) ==
    IF k = 0 THEN <<>>
    ELSE LET userRequests == NeverSweptRecord(log, k - 1)
             t == log[k][1]
         IN  IF userRequests = <<>>
             THEN [count |-> 1, startTime |-> t]
             ELSE IF t - userRequests.startTime > RATE_LIMIT_WINDOW_MS
             THEN [count |-> 1, startTime |-> t]
             ELSE IF userRequests.count < RATE_LIMIT_MAX_REQUESTS
             THEN [userRequests EXCEPT !.count = @ + 1]
             ELSE userRequests

\* the success field returned to call k of log
NeverSweptAnswer(log, k) ==
    LET userRequests == NeverSweptRecord(log, k - 1)
        t == log[k][1]
    IN  \/ userRequests = <<>>
        \/ t - userRequests.startTime > RATE_LIMIT_WINDOW_MS
        \/ userRequests.count < RATE_LIMIT_MAX_REQUESTS

\* C35: every call of every identity was given the answer that a limiter
\* which never sweeps gives to the same calls at the same times, whenever
\* the sweep ran in between.
C35_SweepInvisible ==
    \A ip \in DOMAIN rlLog :
        \A k \in 1..Len(rlLog[ip]) :
            rlLog[ip][k][2] = NeverSweptAnswer(rlLog[ip], k)

\* an identity was admitted up to the maximum and refused at time 0; the
\* sweep ran after its window had passed; its next call, made after that run
\* of the sweep, was allowed
C35_Witness ==
    \E ip \in DOMAIN rlLog :
        LET log == rlLog[ip]
            n == RATE_LIMIT_MAX_REQUESTS + 2
        IN  /\ Len(log) = n
            /\ \A k \in 1..(n - 1) : log[k][1] = 0
            /\ ~log[n - 1][2]
            /\ nextSweep - RATE_LIMIT_WINDOW_MS > RATE_LIMIT_WINDOW_MS
            /\ log[n][1] > nextSweep - RATE_LIMIT_WINDOW_MS
            /\ log[n][2]

(***************************************************************************)
(* Eviction of job records.                                                *)
(***************************************************************************)
\* C36: a timer is scheduled only by a getJobStatus call that reads a
\* 'completed' or 'failed' record, for the id it read; a record leaves
\* jobStore only in the step of a due timer of its id, and it is terminal
\* when it leaves; so a record that is not terminal, and a terminal record
\* for which no timer is pending, stay in the store.
C36_EvictionOnlyAfterTerminalPoll ==
    [][/\ \A t \in timers' \ timers :
            /\ GetJobStatus(t.jobId)
            /\ Terminal(t.jobId)
            /\ t.due = now + EVICTION_DELAY_MS
       /\ \A j \in DOMAIN jobStore :
            j \notin DOMAIN jobStore' =>
                /\ Terminal(j)
                /\ \E t \in timers : t.jobId = j /\ t.due <= now /\ TimerFires(t)]_vars

\* one record has been evicted; another has been terminal for longer than
\* the delay, was never read since, and is still stored with no timer pending
C36_Witness ==
    \E a \in evicted, b \in DOMAIN jobStore :
        /\ Terminal(b)
        /\ now - doneAt[b] > EVICTION_DELAY_MS
        /\ \A t \in timers : t.jobId # b

\* the timers pending for job j
TimersOf(j) == {t \in timers : t.jobId = j}

\* C37: with timers run when they are due, a terminal record is deleted at
\* the due time of the earliest timer of its id, which is
\* EVICTION_DELAY_MS after the first poll that read it terminal: up to
\* then every poll returns the stored terminal record and leaves the pending
\* timers as they are, the record is not kept past that due time, and a
\* timer that fires for an id already deleted changes nothing in the store.
C37_EvictedAfterFirstTerminalPoll ==
    [][\A j \in 1..MaxJobs :
         /\ (j \in DOMAIN jobStore /\ j \notin DOMAIN jobStore') =>
                \E t \in TimersOf(j) :
                    /\ TimerFires(t)
                    /\ t.due = now
                    /\ \A u \in TimersOf(j) : u.due >= t.due
         /\ (GetJobStatus(j) /\ Terminal(j)) =>
                /\ reply'.job = jobStore[j]
                /\ reply'.job = writes[j][Len(writes[j])]
                /\ jobStore' = jobStore
                /\ TimersOf(j) \subseteq timers'
                /\ TimersOf(j) = {} =>
                      timers' \ timers = {[jobId |-> j, due |-> now + EVICTION_DELAY_MS]}
         /\ \A t \in TimersOf(j) :
                (j \notin DOMAIN jobStore /\ TimerFires(t)) =>
                    (jobStore' = jobStore /\ evicted' = evicted)
         /\ \A t \in timers' :
                (t.jobId = j /\ j \in DOMAIN jobStore') => now' <= t.due]_vars

\* a record was read terminal twice at different times and deleted when
\* the first timer was due: the second timer is still pending for the
\* deleted id
C37_Witness ==
    \E j \in evicted :
        /\ j \notin DOMAIN jobStore
        /\ \E t \in timers : t.jobId = j /\ t.due > now

(***************************************************************************)
(* The boundary of the window.                                             *)
(***************************************************************************)
\* C38: a call made exactly RATE_LIMIT_WINDOW_MS after the window start is
\* counted in that window (the window start stays; the call is refused when
\* the count is at the maximum and otherwise raises the count by one), and
\* a run of the sweep keeps every record that checkRateLimit treats as
\* inside its window, a record of exactly that age included.
C38_StrictWindowTest ==
    [][/\ \A hdr \in Headers :
            LET ip == IpOf(hdr)
            IN  (CheckRateLimitCall(ip)
                   /\ ip \in DOMAIN requests
                   /\ now - requests[ip].startTime = RATE_LIMIT_WINDOW_MS)
                => /\ requests'[ip].startTime = requests[ip].startTime
                   /\ IF requests[ip].count = RATE_LIMIT_MAX_REQUESTS
                      THEN Answered(ip, FALSE) /\ requests' = requests
                      ELSE /\ Answered(ip, TRUE)
                           /\ requests'[ip].count = requests[ip].count + 1
       /\ nextSweep' # nextSweep =>
            \A ip \in DOMAIN requests :
                ~WindowExpired(requests[ip].startTime)
                    => (ip \in DOMAIN requests' /\ requests'[ip] = requests[ip])]_vars

\* at the instant its window is exactly RATE_LIMIT_WINDOW_MS old, a record
\* at the maximum has been through a run of the sweep and has refused a call
C38_Witness ==
    \E ip \in DOMAIN requests :
        /\ now - requests[ip].startTime = RATE_LIMIT_WINDOW_MS
        /\ requests[ip].count = RATE_LIMIT_MAX_REQUESTS
        /\ rlLog[ip][Len(rlLog[ip])] = <<now, FALSE>>
        /\ nextSweep = now + RATE_LIMIT_WINDOW_MS

(***************************************************************************)
(* The preview of the active file.                                         *)
(***************************************************************************)
\* the optimized preview is on screen: a file is active, a result is held
\* and the loader is not shown
PreviewShown ==
    /\ preview.activeFile # Null
    /\ preview.optimizedData # Null
    /\ ~preview.isLoading

\* C39: the optimized preview on screen is the answer to the request of
\* the latest run of the effect, made for the current file and settings;
\* optimizedData is set to a result only by the answer to that request; a
\* request enters flight only from the timer of the latest run, so a timer
\* cleared by a change of the props is never sent.
C39_OnlyLatestPreview ==
    [][/\ PreviewShown' =>
            /\ preview'.optimizedData.gen = preview'.gen
            /\ preview'.optimizedData.file = preview'.activeFile
            /\ preview'.optimizedData.settings = preview'.settings
       /\ (preview'.optimizedData # preview.optimizedData
              /\ preview'.optimizedData # Null) =>
            /\ preview'.optimizedData.gen = preview.gen
            /\ preview'.optimizedData.file = preview.activeFile
            /\ preview'.optimizedData.settings = preview.settings
            /\ preview'.activeFile = preview.activeFile
            /\ preview'.settings = preview.settings
       /\ \A r \in preview'.inflight :
            (\A q \in preview.inflight : q.gen # r.gen) =>
                /\ preview.timer # Null
                /\ preview.timer.gen = r.gen
                /\ r.gen = preview.gen
                /\ ~r.isCancelled
       /\ (preview.timer # Null /\ preview'.timer # preview.timer
              /\ \A r \in preview'.inflight : r.gen # preview.timer.gen) =>
            preview'.gen >= preview.gen /\ <<preview'.activeFile, preview'.settings>>
                                            # <<preview.activeFile, preview.settings>>]_vars

\* the preview of the third run is on screen while the request of an
\* earlier run, superseded in flight, is still unanswered
C39_Witness ==
    /\ PreviewShown
    /\ preview.gen = 3
    /\ preview.optimizedData.gen = 3
    /\ \E r \in preview.inflight : r.isCancelled /\ r.gen < 3

====
